---- MODULE Spec2Model ----
(***************************************************************************)
(* Random search optimizer of NASLib                                       *)
(* (naslib/optimizers/discrete/rs/optimizer.py).                           *)
(*                                                                         *)
(* The state is the RandomSearch object: dataset, search_space, scope,     *)
(* sampled_archs, history, plus the log of benchmark queries it has made   *)
(* and the outcome of the last call.  One action per method.  The          *)
(* discretization done by sample_random_architecture is modelled twice:    *)
(* as the operator SampleRandomArchitecture used by new_epoch, and edge    *)
(* by edge (SampleBegin .. SampleReturn) to observe the order of the two   *)
(* update_edges passes.                                                    *)
(***************************************************************************)
EXTENDS Integers, Sequences, FiniteSets, TLC

VARIABLES
    dataset,        \* self.dataset
    search_space,   \* self.search_space: <<>> while the attribute is missing, else <<graph>>
    scope,          \* self.scope (Unassigned while the attribute is missing)
    sampled_archs,  \* self.sampled_archs: list of models [arch, accuracy]
    history,        \* self.history: ModuleList of models
    queries,        \* calls received by the benchmark: [arch, metric, dataset]
    epochs_done,    \* number of new_epoch calls that returned
    last_call,      \* the last call made on the optimizer and its outcome
    pc,             \* position inside sample_random_architecture (edge-by-edge run)
    work,           \* the local `architecture` of sample_random_architecture: <<>> or <<graph>>
    cursor          \* next edge update_edges visits

vars == <<dataset, search_space, scope, sampled_archs, history, queries,
          epochs_done, last_call, pc, work, cursor>>

(***************************************************************************)
(* Bounds of the model.                                                    *)
(***************************************************************************)
\* accuracies returned by the benchmark are 1..MaxAcc
MaxAcc == 3
\* new_epoch calls explored starting from construction
MaxEpochs == 2
\* new_epoch calls explored starting from the warm state
MaxExtra == 2

(***************************************************************************)
(* Program constants.                                                      *)
(***************************************************************************)
\* `if len(self.history) < 100`
HistorySize == 100
\* self.performance_metric = Metric.VAL_ACCURACY
PerformanceMetric == "VAL_ACCURACY"

Acc == 1..MaxAcc
Datasets == {"cifar10", "cifar100"}

(***************************************************************************)
(* Python values.                                                          *)
(***************************************************************************)
None == "None"
\* a scope that is given but empty: "" or []
EmptyScope == ""
Unassigned == "<unassigned>"

\* the truth value Python gives a scope argument in `scope if scope else ...`
Truthy(x) == x # None /\ x # EmptyScope

\* np.random.randint(n): the values it can return
RandInt(n) == 0 .. (n - 1)

\* list[i] with Python's 0-based index
Index0(list, i) == list[i + 1]

(***************************************************************************)
(* The search-space graph (external library).  An edge belongs to the      *)
(* graph of one scope and carries attribute data; the attribute op is      *)
(* either a list of candidate ops or a single op.                          *)
(***************************************************************************)
OpList(items) == [list |-> TRUE, items |-> items]
SingleOp(name) == [list |-> FALSE, items |-> <<name>>]

\* isinstance(op, list)
IsList(op) == op.list

\* edge.data.set(name, value)
Set(data, name, value) ==
    [k \in (DOMAIN data) \cup {name} |-> IF k = name THEN value ELSE data[k]]

Has(data, name) == name \in DOMAIN data

Edge(sc, ops) == [scope |-> sc, data |-> [op |-> OpList(ops)]]

SpaceA ==
    [name |-> "A", QUERYABLE |-> TRUE, OPTIMIZER_SCOPE |-> "cell",
     is_clone |-> FALSE, prepared |-> FALSE,
     edges |-> << Edge("cell", <<"skip", "conv3x3", "pool">>),
                  Edge("cell", <<"conv1x1">>),
                  Edge("head", <<"fc", "gap">>) >>]

SpaceB ==
    [name |-> "B", QUERYABLE |-> TRUE, OPTIMIZER_SCOPE |-> "head",
     is_clone |-> FALSE, prepared |-> FALSE,
     edges |-> << Edge("head", <<"fc", "gap">>),
                  Edge("cell", <<"skip", "conv3x3", "pool">>),
                  Edge("head", <<"id", "bn", "relu">>) >>]

\* a search space without a benchmark
SpaceC ==
    [name |-> "C", QUERYABLE |-> FALSE, OPTIMIZER_SCOPE |-> "cell",
     is_clone |-> FALSE, prepared |-> FALSE,
     edges |-> << Edge("cell", <<"skip", "conv3x3">>) >>]

\* the search spaces handed to adapt_search_space
SearchSpaces == {SpaceA, SpaceC}
AllSearchSpaces == {SpaceA, SpaceB, SpaceC}
ScopeArgs == {None, EmptyScope, "cell", "head"}

\* graph.clone(): the same graph, another object
Clone(g) == [g EXCEPT !.is_clone = TRUE]

\* graph.prepare_discretization(): a hook that leaves the edges alone
PrepareDiscretization(g) == [g EXCEPT !.prepared = TRUE]

\* update_edges(f, scope=...) visits the edges of the graphs in scope
InScope(edge, sc) == sc = "all" \/ edge.scope = sc

(***************************************************************************)
(* The two discretization functions.                                       *)
(***************************************************************************)
\* add_sampled_op_index, op_index being what np.random.randint returned
AddSampledOpIndex(edge, op_index) ==
    [edge EXCEPT !.data = Set(@, "op_index", op_index)]

UpdateOps(edge) ==
    LET primitives == IF IsList(edge.data.op) THEN edge.data.op.items
                      ELSE edge.data.primitives
    IN  [edge EXCEPT !.data =
            Set(Set(@, "op", SingleOp(Index0(primitives, edge.data.op_index))),
                "primitives", primitives)]

\* len(edge.data.op) of the widest edge
Widest(g) ==
    LET lens == { Len(g.edges[i].data.op.items) : i \in DOMAIN g.edges }
    IN  CHOOSE n \in lens : \A m \in lens : m <= n

ScopeEdges(g, sc) == { i \in DOMAIN g.edges : InScope(g.edges[i], sc) }

\* the draws of np.random.randint over one pass: one per edge in scope
Picks(g, sc) ==
    { pick \in [ScopeEdges(g, sc) -> RandInt(Widest(g))] :
        \A i \in ScopeEdges(g, sc) :
            pick[i] \in RandInt(Len(g.edges[i].data.op.items)) }

\* architecture.update_edges(add_sampled_op_index, scope=scope, private_edge_data=False)
AddIndexPass(g, sc, pick) ==
    [g EXCEPT !.edges = [i \in DOMAIN g.edges |->
        IF InScope(g.edges[i], sc) THEN AddSampledOpIndex(g.edges[i], pick[i])
        ELSE g.edges[i]]]

\* architecture.update_edges(update_ops, scope=scope, private_edge_data=True)
UpdateOpsPass(g, sc) ==
    [g EXCEPT !.edges = [i \in DOMAIN g.edges |->
        IF InScope(g.edges[i], sc) THEN UpdateOps(g.edges[i])
        ELSE g.edges[i]]]

SampleRandomArchitecture(space, sc, pick) ==
    LET architecture == PrepareDiscretization(Clone(space))
    IN  UpdateOpsPass(AddIndexPass(architecture, sc, pick), sc)

(***************************************************************************)
(* The benchmark (external).  query(metric, dataset) looks the             *)
(* architecture up in a table of precomputed results: the same             *)
(* architecture always gets the same answer.                               *)
(***************************************************************************)
QueryAnswers(arch) ==
    LET seen == { i \in DOMAIN sampled_archs : sampled_archs[i].arch = arch }
    IN  IF seen = {} THEN Acc
        ELSE { sampled_archs[i].accuracy : i \in seen }

(***************************************************************************)
(* RandomSearch                                                            *)
(***************************************************************************)
Call(op, error, value) == [op |-> op, error |-> error, value |-> value]

Idle == pc = "idle" /\ work = <<>> /\ cursor = 0

\* __init__(config): config.dataset is an input
InitOptimizer ==
    /\ dataset \in Datasets
    /\ search_space = <<>>
    /\ scope = Unassigned
    /\ sampled_archs = <<>>
    /\ history = <<>>
    /\ queries = <<>>
    /\ epochs_done = 0
    /\ last_call = Call("__init__", "none", <<>>)
    /\ Idle

Init == InitOptimizer

AdaptSearchSpaceNoClone(space, sc) ==
    /\ Idle
    /\ IF space.QUERYABLE
       THEN /\ search_space' = <<space>>
            /\ scope' = IF Truthy(sc) THEN sc ELSE space.OPTIMIZER_SCOPE
            /\ last_call' = Call("adapt_search_space", "none", <<>>)
       ELSE /\ last_call' = Call("adapt_search_space", "AssertionError", <<>>)
            /\ UNCHANGED <<search_space, scope>>
    /\ UNCHANGED <<dataset, sampled_archs, history, queries, epochs_done, pc, work, cursor>>

AdaptSearchSpace(space, sc) ==
    /\ Idle
    /\ IF space.QUERYABLE
       THEN /\ search_space' = <<Clone(space)>>
            /\ scope' = IF Truthy(sc) THEN sc ELSE space.OPTIMIZER_SCOPE
            /\ last_call' = Call("adapt_search_space", "none", <<>>)
       ELSE /\ last_call' = Call("adapt_search_space", "AssertionError", <<>>)
            /\ UNCHANGED <<search_space, scope>>
    /\ UNCHANGED <<dataset, sampled_archs, history, queries, epochs_done, pc, work, cursor>>

\* `for i, p in enumerate(self.history): if child.accuracy > p.accuracy: ... break`:
\* the position the loop stops at, 0 when it runs to the end
FirstLower(hist, child) ==
    LET lower == { i \in DOMAIN hist : child.accuracy > hist[i].accuracy }
    IN  IF lower = {} THEN 0
        ELSE CHOOSE i \in lower : \A j \in lower : i <= j

\* a history that is never capped
UpdateHistoryUnbounded(hist, child) == Append(hist, child)

\* a history that evicts its worst entry
UpdateHistoryEvictWorst(hist, child) ==
    IF Len(hist) < HistorySize THEN Append(hist, child)
    ELSE LET worst == CHOOSE i \in DOMAIN hist :
                        /\ \A j \in DOMAIN hist : hist[j].accuracy >= hist[i].accuracy
                        /\ \A j \in 1 .. (i - 1) : hist[j].accuracy > hist[i].accuracy
         IN  IF child.accuracy > hist[worst].accuracy
             THEN [hist EXCEPT ![worst] = child]
             ELSE hist

UpdateHistory(hist, child) ==
    IF Len(hist) < HistorySize THEN Append(hist, child)
    ELSE IF FirstLower(hist, child) = 0 THEN hist
    ELSE [hist EXCEPT ![FirstLower(hist, child)] = child]

\* new_epoch with the second, commented-out append to sampled_archs left in
NewEpochAppendsTwice(limit) ==
    /\ Idle
    /\ epochs_done < limit
    /\ IF search_space = <<>>
       THEN /\ last_call' = Call("new_epoch", "AttributeError", <<>>)
            /\ UNCHANGED <<sampled_archs, history, queries, epochs_done>>
       ELSE \E pick \in Picks(search_space[1], scope) :
            LET arch == SampleRandomArchitecture(search_space[1], scope, pick)
            IN  \E accuracy \in QueryAnswers(arch) :
                LET model == [arch |-> arch, accuracy |-> accuracy]
                IN  /\ queries' = Append(queries,
                           [arch |-> arch, metric |-> PerformanceMetric, dataset |-> dataset])
                    /\ sampled_archs' = Append(Append(sampled_archs, model), model)
                    /\ history' = UpdateHistory(history, model)
                    /\ epochs_done' = epochs_done + 1
                    /\ last_call' = Call("new_epoch", "none", <<>>)
    /\ UNCHANGED <<dataset, search_space, scope, pc, work, cursor>>

\* new_epoch(e); `limit` bounds the number of calls explored
NewEpoch(limit) ==
    /\ Idle
    /\ epochs_done < limit
    /\ IF search_space = <<>>
       THEN \* self.search_space is missing
            /\ last_call' = Call("new_epoch", "AttributeError", <<>>)
            /\ UNCHANGED <<sampled_archs, history, queries, epochs_done>>
       ELSE \E pick \in Picks(search_space[1], scope) :
            LET arch == SampleRandomArchitecture(search_space[1], scope, pick)
            IN  \E accuracy \in QueryAnswers(arch) :
                LET model == [arch |-> arch, accuracy |-> accuracy]
                IN  /\ queries' = Append(queries,
                           [arch |-> arch, metric |-> PerformanceMetric, dataset |-> dataset])
                    /\ sampled_archs' = Append(sampled_archs, model)
                    /\ history' = UpdateHistory(history, model)
                    /\ epochs_done' = epochs_done + 1
                    /\ last_call' = Call("new_epoch", "none", <<>>)
    /\ UNCHANGED <<dataset, search_space, scope, pc, work, cursor>>

\* min(seq, key=lambda x: x.accuracy)
PyMinByAccuracy(seq) ==
    seq[CHOOSE i \in DOMAIN seq :
            /\ \A j \in DOMAIN seq : seq[j].accuracy >= seq[i].accuracy
            /\ \A j \in 1 .. (i - 1) : seq[j].accuracy > seq[i].accuracy]

\* max(seq, key=lambda x: x.accuracy): the first of the largest items
PyMaxByAccuracy(seq) ==
    seq[CHOOSE i \in DOMAIN seq :
            /\ \A j \in DOMAIN seq : seq[j].accuracy <= seq[i].accuracy
            /\ \A j \in 1 .. (i - 1) : seq[j].accuracy < seq[i].accuracy]

GetFinalArchitecture ==
    /\ Idle
    /\ IF sampled_archs = <<>>
       THEN \* max() of an empty sequence
            last_call' = Call("get_final_architecture", "ValueError", <<>>)
       ELSE last_call' = Call("get_final_architecture", "none",
                              <<PyMaxByAccuracy(sampled_archs).arch>>)
    /\ UNCHANGED <<dataset, search_space, scope, sampled_archs, history, queries,
                   epochs_done, pc, work, cursor>>

Next ==
    \/ \E space \in SearchSpaces, sc \in ScopeArgs : AdaptSearchSpace(space, sc)
    \/ NewEpoch(MaxEpochs)
    \/ GetFinalArchitecture

Spec == Init /\ [][Next]_vars

(***************************************************************************)
(* sample_random_architecture(self.search_space, self.scope), one edge     *)
(* visit of update_edges per step.                                         *)
(***************************************************************************)
\* architecture = search_space.clone(); architecture.prepare_discretization()
SampleBegin ==
    /\ Idle
    /\ search_space # <<>>
    /\ work' = <<PrepareDiscretization(Clone(search_space[1]))>>
    /\ pc' = "add_index"
    /\ cursor' = 1
    /\ UNCHANGED <<dataset, search_space, scope, sampled_archs, history, queries,
                   epochs_done, last_call>>

\* a single pass that samples the index of an edge and replaces its op at once
SampleAddIndexFused ==
    /\ pc = "add_index"
    /\ LET g == work[1]
           e == g.edges[cursor]
           last == cursor = Len(g.edges)
       IN  /\ IF InScope(e, scope)
              THEN \E op_index \in RandInt(Len(e.data.op.items)) :
                       work' = <<[g EXCEPT !.edges[cursor] =
                                    UpdateOps(AddSampledOpIndex(e, op_index))]>>
              ELSE work' = work
           /\ cursor' = IF last THEN 1 ELSE cursor + 1
           /\ pc' = IF last THEN "update_ops" ELSE pc
    /\ UNCHANGED <<dataset, search_space, scope, sampled_archs, history, queries,
                   epochs_done, last_call>>

\* first update_edges: add_sampled_op_index on the next edge
SampleAddIndex ==
    /\ pc = "add_index"
    /\ LET g == work[1]
           e == g.edges[cursor]
           last == cursor = Len(g.edges)
       IN  /\ IF InScope(e, scope)
              THEN \E op_index \in RandInt(Len(e.data.op.items)) :
                       work' = <<[g EXCEPT !.edges[cursor] = AddSampledOpIndex(e, op_index)]>>
              ELSE work' = work
           /\ cursor' = IF last THEN 1 ELSE cursor + 1
           /\ pc' = IF last THEN "update_ops" ELSE pc
    /\ UNCHANGED <<dataset, search_space, scope, sampled_archs, history, queries,
                   epochs_done, last_call>>

\* second update_edges: update_ops on the next edge
SampleUpdateOps ==
    /\ pc = "update_ops"
    /\ LET g == work[1]
           e == g.edges[cursor]
           last == cursor = Len(g.edges)
       IN  /\ work' = IF InScope(e, scope)
                      THEN <<[g EXCEPT !.edges[cursor] = UpdateOps(e)]>>
                      ELSE work
           /\ cursor' = IF last THEN 0 ELSE cursor + 1
           /\ pc' = IF last THEN "return" ELSE pc
    /\ UNCHANGED <<dataset, search_space, scope, sampled_archs, history, queries,
                   epochs_done, last_call>>

\* return architecture
SampleReturn ==
    /\ pc = "return"
    /\ last_call' = Call("sample_random_architecture", "none", work)
    /\ work' = <<>>
    /\ pc' = "idle"
    /\ UNCHANGED <<dataset, search_space, scope, sampled_archs, history, queries,
                   epochs_done, cursor>>

NextSample ==
    \/ \E space \in AllSearchSpaces, sc \in ScopeArgs : AdaptSearchSpace(space, sc)
    \/ SampleBegin
    \/ SampleAddIndex
    \/ SampleUpdateOps
    \/ SampleReturn

SpecSample == Init /\ [][NextSample]_vars

(***************************************************************************)
(* The optimizer late in a run: search space A adapted with its default    *)
(* scope and WarmLen epochs done, each of which drew index 0 on every edge *)
(* and so sampled the same architecture.  While fewer than HistorySize     *)
(* epochs are done, every model is appended to both lists, so history      *)
(* equals sampled_archs.                                                   *)
(***************************************************************************)
WarmLen == HistorySize - 1

FirstPick(g, sc) == [i \in ScopeEdges(g, sc) |-> 0]

InitWarm ==
    \E accuracy \in Acc :
        LET pick == FirstPick(Clone(SpaceA), SpaceA.OPTIMIZER_SCOPE)
            arch == SampleRandomArchitecture(Clone(SpaceA), SpaceA.OPTIMIZER_SCOPE, pick)
            model == [arch |-> arch, accuracy |-> accuracy]
        IN  /\ dataset = "cifar10"
            /\ search_space = <<Clone(SpaceA)>>
            /\ scope = SpaceA.OPTIMIZER_SCOPE
            /\ sampled_archs = [i \in 1..WarmLen |-> model]
            /\ history = [i \in 1..WarmLen |-> model]
            /\ queries = [i \in 1..WarmLen |->
                    [arch |-> arch, metric |-> PerformanceMetric, dataset |-> "cifar10"]]
            /\ epochs_done = WarmLen
            /\ last_call = Call("new_epoch", "none", <<>>)
            /\ Idle

NextWarm ==
    \/ \E space \in SearchSpaces : AdaptSearchSpace(space, None)
    \/ NewEpoch(WarmLen + MaxExtra)
    \/ GetFinalArchitecture

SpecWarm == InitWarm /\ [][NextWarm]_vars

(***************************************************************************)
(* Properties                                                              *)
(***************************************************************************)
Min2(a, b) == IF a <= b THEN a ELSE b

AtLeast(seq, a) == Cardinality({ i \in DOMAIN seq : seq[i].accuracy >= a })

IsPrefix(s, t) == Len(s) <= Len(t) /\ \A i \in DOMAIN s : t[i] = s[i]

\* The edge-by-edge run returns what SampleRandomArchitecture computes for the
\* same draws (SpecSample).
SampleStepsAgree ==
    pc = "return" =>
        work[1] = SampleRandomArchitecture(search_space[1], scope,
                      [i \in ScopeEdges(work[1], scope) |-> work[1].edges[i].data.op_index])

\* Until HistorySize epochs are done history and sampled_archs hold the same
\* models, one per query (Spec).
HistoryFollowsSamples ==
    epochs_done < HistorySize =>
        history = sampled_archs /\ Len(queries) = epochs_done

\* C1: once new_epoch has been called at least once, get_final_architecture
\* succeeds and returns the architecture of a sampled model whose accuracy is
\* greater than or equal to the accuracy of every sampled model.
FinalArchitectureIsBest ==
    (last_call.op = "get_final_architecture" /\ epochs_done >= 1) =>
        /\ last_call.error = "none"
        /\ \E i \in DOMAIN sampled_archs :
              /\ sampled_archs[i].arch = last_call.value[1]
              /\ \A j \in DOMAIN sampled_archs :
                     sampled_archs[i].accuracy >= sampled_archs[j].accuracy

\* get_final_architecture has returned the second of two sampled models, the
\* better one.
FinalArchitectureWitness ==
    /\ last_call.op = "get_final_architecture"
    /\ Len(sampled_archs) = 2
    /\ sampled_archs[2].accuracy > sampled_archs[1].accuracy
    /\ last_call.value = <<sampled_archs[2].arch>>

\* C2: after n new_epoch calls the accuracies in history are, as a multiset,
\* the min(n, 100) highest accuracies among the n sampled models: for every
\* accuracy a, history holds as many entries of accuracy >= a as there are
\* among the samples, up to the size of the history.
HistoryIsTopK ==
    /\ Len(history) = Min2(epochs_done, 100)
    /\ \A a \in Acc :
          AtLeast(history, a) = Min2(AtLeast(sampled_archs, a), Min2(epochs_done, 100))

\* C3: len(history) <= 100 in every state, len(history) = min(n, 100) after n
\* new_epoch calls, and once the length is 100 it never changes.
HistoryBounded ==
    /\ [](Len(history) <= 100 /\ Len(history) = Min2(epochs_done, 100))
    /\ [][Len(history) = 100 => Len(history') = 100]_vars

\* more than 100 epochs are done and history holds 100 models
HistoryBoundedWitness ==
    /\ epochs_done > 100
    /\ Len(sampled_archs) > 100
    /\ Len(history) = 100

\* what a call adapt_search_space(space, sc) leaves behind, new_scope being the
\* scope it is to store
AdaptOutcome(space, new_scope) ==
    IF space.QUERYABLE
    THEN /\ last_call' = Call("adapt_search_space", "none", <<>>)
         /\ Len(search_space') = 1
         /\ search_space'[1].is_clone
         /\ [search_space'[1] EXCEPT !.is_clone = FALSE] = space
         /\ scope' = new_scope
    ELSE /\ last_call' = Call("adapt_search_space", "AssertionError", <<>>)
         /\ search_space' = search_space
         /\ scope' = scope

\* C4 as claimed: a search space that is not queryable fails the assertion and
\* leaves search_space and scope alone; a queryable one is stored as a clone,
\* and scope is the given scope if one is given (is not None), otherwise the
\* search space's OPTIMIZER_SCOPE.
AdaptStoresGivenScope ==
    [][\A space \in AllSearchSpaces, sc \in ScopeArgs :
          AdaptSearchSpace(space, sc) =>
              AdaptOutcome(space, IF sc # None THEN sc ELSE space.OPTIMIZER_SCOPE)]_vars

\* C4 amended: as above, but scope is the given scope only if it is truthy
\* (neither None nor empty); an empty scope is replaced by OPTIMIZER_SCOPE too.
AdaptStoresTruthyScope ==
    [][\A space \in AllSearchSpaces, sc \in ScopeArgs :
          AdaptSearchSpace(space, sc) =>
              AdaptOutcome(space, IF sc \notin {None, EmptyScope} THEN sc
                                  ELSE space.OPTIMIZER_SCOPE)]_vars

\* search space B adapted with the scope "cell", which is not its own
AdaptWitness ==
    /\ last_call = Call("adapt_search_space", "none", <<>>)
    /\ search_space = <<[SpaceB EXCEPT !.is_clone = TRUE]>>
    /\ scope = "cell"

\* the architectures sample_random_architecture can return for the optimizer's
\* search space and scope
Discretizations ==
    { SampleRandomArchitecture(search_space[1], scope, pick) :
        pick \in Picks(search_space[1], scope) }

\* C5: a new_epoch call appends exactly one model to sampled_archs, an
\* architecture sampled from the search space, and makes exactly one query, for
\* VAL_ACCURACY of that architecture on the configured dataset; no call changes
\* or removes an earlier entry, and after n calls sampled_archs has n entries.
NewEpochOneRound ==
    [][/\ IsPrefix(sampled_archs, sampled_archs')
       /\ IsPrefix(queries, queries')
       /\ Len(sampled_archs') = epochs_done'
       /\ Len(queries') = epochs_done'
       /\ epochs_done' \in {epochs_done, epochs_done + 1}
       /\ epochs_done' = epochs_done + 1 =>
             LET model == sampled_archs'[Len(sampled_archs')]
             IN  /\ model.arch \in Discretizations
                 /\ queries'[Len(queries')] =
                        [arch |-> model.arch, metric |-> "VAL_ACCURACY", dataset |-> dataset]]_vars

\* two epochs have sampled two different models
NewEpochWitness ==
    /\ epochs_done = 2
    /\ Len(sampled_archs) = 2
    /\ sampled_archs[1].arch # sampled_archs[2].arch
    /\ sampled_archs[1].accuracy # sampled_archs[2].accuracy

\* C6: while sample_random_architecture runs, no edge in scope has its op
\* replaced before every edge in scope has an op_index; and in the architecture
\* it returns every edge in scope has 0 <= op_index < number of candidates, op
\* the candidate at op_index of the search space's candidate list, and
\* primitives that candidate list.
SampleTwoPasses ==
    work # <<>> =>
        LET g == work[1]
            S == ScopeEdges(g, scope)
        IN  /\ (\E i \in S : ~IsList(g.edges[i].data.op)) =>
                   \A j \in S : Has(g.edges[j].data, "op_index")
            /\ pc = "return" =>
                   \A i \in S :
                       LET d == g.edges[i].data
                           candidates == search_space[1].edges[i].data.op.items
                       IN  /\ d.op_index >= 0
                           /\ d.op_index < Len(candidates)
                           /\ d.op = SingleOp(candidates[d.op_index + 1])
                           /\ d.primitives = candidates

\* an architecture of search space B about to be returned, with the second
\* candidate on one edge in scope and the third on the other
SampleWitness ==
    /\ pc = "return"
    /\ search_space[1].name = "B"
    /\ scope = "head"
    /\ work[1].edges[1].data.op_index = 1
    /\ work[1].edges[3].data.op_index = 2
    /\ work[1].edges[2].data = SpaceB.edges[2].data

\* C7: when history holds 100 entries, a new child replaces the entry at the
\* lowest index whose accuracy is strictly less than the child's and nothing
\* else changes; if there is no such entry history is unchanged.
HistoryReplacesFirstLower ==
    [][(Len(history) = 100 /\ epochs_done' = epochs_done + 1) =>
          LET child == sampled_archs'[Len(sampled_archs')]
          IN  IF \E i \in DOMAIN history : history[i].accuracy < child.accuracy
              THEN \E m \in DOMAIN history :
                      /\ history[m].accuracy < child.accuracy
                      /\ \A j \in 1 .. (m - 1) : history[j].accuracy >= child.accuracy
                      /\ Len(history') = Len(history)
                      /\ history'[m] = child
                      /\ \A j \in DOMAIN history : j # m => history'[j] = history[j]
              ELSE history' = history]_vars

\* the 101st model has replaced the last entry of history, the only one with a
\* lower accuracy
HistoryReplaceWitness ==
    /\ epochs_done = 101
    /\ Len(history) = 100
    /\ history[100] = sampled_archs[101]
    /\ sampled_archs[100].accuracy < sampled_archs[101].accuracy
    /\ \A j \in 1 .. 99 : history[j] = sampled_archs[j]

====
